---- MODULE Spec2Model ----
(***************************************************************************)
(* merge-pr (src/src/main.rs): one sequential run of `main`, from tool     *)
(* discovery to process exit, against a local git repository, the hosting  *)
(* server's refs and the answers of the `gh` CLI.                          *)
(*                                                                         *)
(* Every external command of `main` is one action; its outcome (success or *)
(* failure, and the data a query returns) is chosen by the environment.    *)
(* `log` records every command issued, in order, with its outcome.         *)
(***************************************************************************)
EXTENDS Integers, Sequences, FiniteSets, TLC

VARIABLES
    args,       \* Args, fixed for the run
    pc,         \* position of the run inside main
    git,        \* the local repository: refs, HEAD, remotes, rebase in progress
    srv,        \* branch tips on the hosting side (base repository and head repository)
    current_branch, \* output of `git branch --show-current`
    pr_data,    \* PrData once resolved: fork_owner, remote (RemoteGuard), branch
    status,     \* the latest Status snapshot (consumed at line 431)
    base,       \* `base`, moved out of status.base_ref_name
    result,     \* what main returns
    log,        \* commands and sleeps issued so far
    polls,      \* number of poll_status calls made
    reported,   \* the check runs printed by the CI gate
    envPushes,  \* pushes other people made to the base branch during the run
    ciOut       \* result cell of the pure-function specifications

vars == <<args, pc, git, srv, current_branch, pr_data, status, base, result, log,
          polls, reported, envPushes, ciOut>>

----------------------------------------------------------------------------
(* Bounds *)

MaxPolls == 3
MaxEnvPushes == 1
MaxChecks == 3

----------------------------------------------------------------------------
(* Strings are sequences of one-character strings, so that parsing and     *)
(* formatting are computed and not assumed.                                *)

None == [none |-> TRUE]

Digits == {"0", "1", "2", "3", "4", "5", "6", "7", "8", "9"}

BaseName == <<"b">>
HeadName == <<"f">>
OwnerLogin == <<"m">>
ForkLogin == <<"a">>
RemoteOrigin == <<"o">>

\* str.parse::<u64>().is_ok(): digits, with an optional leading '+'
IsU64(s) ==
    LET d == IF s # <<>> /\ s[1] = "+" THEN Tail(s) ELSE s
    IN  d # <<>> /\ \A i \in 1..Len(d) : d[i] \in Digits

\* str.split_once(':'): None, or the parts before and after the first ':'
split_once(s) ==
    IF \E i \in 1..Len(s) : s[i] = ":"
    THEN LET i == CHOOSE i \in 1..Len(s) :
                    s[i] = ":" /\ \A j \in 1..(i - 1) : s[j] # ":"
         IN  [none |-> FALSE, left |-> SubSeq(s, 1, i - 1),
              right |-> SubSeq(s, i + 1, Len(s))]
    ELSE None

\* variant: the fork owner is left out of the qualified name
qualified_branch_BranchOnly(p) == p.branch

\* PrData::qualified_branch
qualified_branch(p) ==
    IF p.fork_owner # None THEN p.fork_owner.v \o <<":">> \o p.branch ELSE p.branch

Some(x) == [none |-> FALSE, v |-> x]

\* the positional argument: absent, a PR number, a branch, owner:branch
Tokens == {None, Some(<<"4", "2">>), Some(HeadName), Some(ForkLogin \o <<":">> \o HeadName)}

----------------------------------------------------------------------------
(* Status model *)

Success == "Success"
Incomplete == "Incomplete"
Fail == "Fail"

CheckRun(s, c) == [typename |-> "CheckRun", status |-> s, conclusion |-> c]
StatusContext == [typename |-> "StatusContext", status |-> None, conclusion |-> ""]

\* variant: a pair the match does not name counts as Success
CheckRun_state_FailOpen(r) ==
    LET s == IF r.status = None THEN "" ELSE r.status.v
        c == r.conclusion
    IN  IF s \in {"QUEUED", "IN_PROGRESS", "WAITING", "REQUESTED", "PENDING"} /\ c = ""
        THEN Incomplete
        ELSE IF s = "COMPLETED" /\ c \in {"FAILURE", "CANCELLED", "TIMED_OUT", "ACTION_REQUIRED"}
             THEN Fail
        ELSE Success

\* CheckRun::state
CheckRun_state(r) ==
    LET s == IF r.status = None THEN "" ELSE r.status.v
        c == r.conclusion
    IN  IF s = "COMPLETED" /\ c \in {"SUCCESS", "SKIPPED", "NEUTRAL"} THEN Success
        ELSE IF s \in {"QUEUED", "IN_PROGRESS", "WAITING", "REQUESTED", "PENDING"} /\ c = ""
             THEN Incomplete
        ELSE IF s = "COMPLETED" /\ c \in {"FAILURE", "CANCELLED", "TIMED_OUT", "ACTION_REQUIRED"}
             THEN Fail
        ELSE Fail

\* CheckRun::is_successy
is_successy(r) ==
    r.status = Some("COMPLETED") /\ (r.conclusion = "SUCCESS" \/ r.conclusion = "SKIPPED")

\* variant: every entry is taken for a check run
as_check_run_AllEntries(c) == Some(c)

\* StatusCheck::as_check_run
as_check_run(c) == IF c.typename = "CheckRun" THEN Some(c) ELSE None

RECURSIVE filter_map_check_runs(_)
filter_map_check_runs(rollup) ==
    IF rollup = <<>> THEN <<>>
    ELSE LET o == as_check_run(Head(rollup))
         IN  (IF o = None THEN <<>> ELSE <<o.v>>) \o filter_map_check_runs(Tail(rollup))

\* Status::check_runs
check_runs(st) == filter_map_check_runs(st.status_check_rollup)

\* variant: any review decision counts as approved
is_approved_Always(st) == TRUE

\* Status::is_approved
is_approved(st) == st.review_decision = "APPROVED"

\* variant: the first state that is not Success decides
RECURSIVE ci_state_loop_FirstDecides(_, _)
ci_state_loop_FirstDecides(runs, in_progress) ==
    IF runs = <<>> THEN (IF in_progress THEN Incomplete ELSE Success)
    ELSE LET state == CheckRun_state(Head(runs))
         IN  IF state = Success THEN ci_state_loop_FirstDecides(Tail(runs), in_progress)
             ELSE state

\* the for loop of Status::ci_state over the remaining states
RECURSIVE ci_state_loop(_, _)
ci_state_loop(runs, in_progress) ==
    IF runs = <<>> THEN (IF in_progress THEN Incomplete ELSE Success)
    ELSE LET state == CheckRun_state(Head(runs))
         IN  IF state = Success THEN ci_state_loop(Tail(runs), in_progress)
             ELSE IF state = Incomplete THEN ci_state_loop(Tail(runs), TRUE)
             ELSE Fail

\* Status::ci_state
ci_state(st) == ci_state_loop(check_runs(st), FALSE)

MkStatus(rd, rollup) ==
    [base_ref_name |-> BaseName, review_decision |-> rd, status_check_rollup |-> rollup]

RunOk == CheckRun(Some("COMPLETED"), "SUCCESS")
RunNeutral == CheckRun(Some("COMPLETED"), "NEUTRAL")
RunPending == CheckRun(Some("IN_PROGRESS"), "")
RunFailed == CheckRun(Some("COMPLETED"), "FAILURE")
RunOdd == CheckRun(None, "SUCCESS")

\* the check entries sequences are drawn from
CheckSamples == {RunOk, RunNeutral, RunPending, RunFailed, RunOdd, StatusContext}

\* what `gh pr view --json baseRefName,reviewDecision,statusCheckRollup` may answer
Rollups == {<<>>, <<StatusContext, RunOk>>, <<RunPending, RunOk>>, <<RunNeutral, RunFailed>>}
ReviewDecisions == {"APPROVED", "REVIEW_REQUIRED"}
Snapshots == {MkStatus(rd, ro) : rd \in ReviewDecisions, ro \in Rollups}

----------------------------------------------------------------------------
(* Commits.  A commit is its first-parent history: the sequence of nodes   *)
(* from the root to the commit itself.  A merge commit's last node carries *)
(* its second parent.  An absent ref is the empty history.                 *)

C(n) == [id |-> n, p2 |-> <<>>]
MergeNode(n, other) == [id |-> n, p2 |-> other]
NoCommit == <<>>

Front(s) == SubSeq(s, 1, Len(s) - 1)
Last(s) == s[Len(s)]

IsMergeCommit(c) == c # NoCommit /\ Last(c).p2 # <<>>

\* a is reachable from b (a = b included)
RECURSIVE Ancestor(_, _)
Ancestor(a, b) ==
    IF a = b THEN TRUE
    ELSE IF b = NoCommit THEN FALSE
    ELSE Ancestor(a, Front(b)) \/ (Last(b).p2 # <<>> /\ Ancestor(a, Last(b).p2))

\* the non-merge commits of head[i..] that upstream does not contain
RECURSIVE ToReplay(_, _, _)
ToReplay(head, upstream, i) ==
    IF i > Len(head) THEN <<>>
    ELSE (IF head[i].p2 = <<>> /\ ~Ancestor(SubSeq(head, 1, i), upstream)
          THEN <<head[i]>> ELSE <<>>) \o ToReplay(head, upstream, i + 1)

\* `git rebase <upstream>` that ran to completion: the branch's own commits
\* replayed on upstream; the branch itself when upstream is already its ancestor
RebaseOnto(head, upstream) == upstream \o ToReplay(head, upstream, 1)

B0 == <<C(1)>>
B1 == <<C(1), C(2)>>
F0 == <<C(1), C(3)>>
LocalOnly == <<C(1), C(4)>>
LocalMerge == <<C(1), C(4), MergeNode(6, F0)>>

----------------------------------------------------------------------------
(* The run *)

Ok == [ok |-> TRUE, msg |-> ""]
Err(m) == [ok |-> FALSE, msg |-> m]

NoStatus == MkStatus("", <<>>)
NoPrData == [fork_owner |-> None, remote |-> None, branch |-> <<>>]

\* Args::parse: the flags and the positional argument
ArgsSet ==
    [branch_or_pr_number : Tokens, ignore_ci : BOOLEAN, wait_for_ci : BOOLEAN,
     dry_run : BOOLEAN, retain_branch : BOOLEAN, no_autosquash : BOOLEAN,
     remote : {RemoteOrigin}]

\* the repositories a run may start from
GitStates ==
    {g \in [HEAD : {BaseName, HeadName},
            locBase : {NoCommit, B0, LocalOnly, LocalMerge},
            locHead : {NoCommit, F0, F0 \o <<C(5)>>},
            trkBase : {B0},
            trkHead : {NoCommit},
            remotes : {{RemoteOrigin}, {RemoteOrigin, ForkLogin}},
            rebasing : {FALSE}] :
        /\ g.HEAD = BaseName => g.locBase # NoCommit
        /\ g.HEAD = HeadName => g.locHead # NoCommit}

\* the hosting side: the tips of the two branches, and the owner of the repository
\* the pull request's head branch lives in (headRepositoryOwner.login)
SrvStates == [base : {B0, B1}, head : {F0}, head_owner : {OwnerLogin, ForkLogin}]

\* the head owner that goes with a token: either for a PR number, the named owner
\* for owner:branch, the repository's own for a branch of the current remote
HeadOwners(tok) ==
    IF tok # None /\ IsU64(tok.v) THEN {OwnerLogin, ForkLogin}
    ELSE IF tok # None /\ split_once(tok.v) # None THEN {split_once(tok.v).left}
    ELSE {OwnerLogin}

Init ==
    /\ args \in ArgsSet
    /\ pc = "ensure_git"
    /\ git \in GitStates
    /\ srv \in SrvStates
    /\ srv.head_owner \in HeadOwners(args.branch_or_pr_number)
    /\ current_branch = <<>>
    /\ pr_data = NoPrData
    /\ status = NoStatus
    /\ base = <<>>
    /\ result = Ok
    /\ log = <<>>
    /\ polls = 0
    /\ reported = <<>>
    /\ envPushes = 0
    /\ ciOut = "-"

Issue(cmd, ok) == log' = Append(log, [cmd |-> cmd, ok |-> ok])
Issue2(c1, ok1, c2, ok2) ==
    log' = log \o <<[cmd |-> c1, ok |-> ok1], [cmd |-> c2, ok |-> ok2]>>

\* variant: the binding is released only when main returns Ok
ExitMain_SuccessOnly(r) ==
    /\ result' = r
    /\ pc' = IF pr_data.remote # None /\ r.ok THEN "drop" ELSE "done"

\* main returns r: its locals go out of scope, pr_data.remote among them
ExitMain(r) ==
    /\ result' = r
    /\ pc' = IF pr_data.remote # None THEN "drop" ELSE "done"

\* head_remote: the guard's name, or args.remote
head_remote == IF pr_data.remote # None THEN pr_data.remote.v ELSE args.remote

\* ensure_tool(&sh, "git")?; ensure_tool(&sh, "gh")?
ensure_tool ==
    /\ pc \in {"ensure_git", "ensure_gh"}
    /\ \E ok \in BOOLEAN :
        /\ Issue(IF pc = "ensure_git" THEN "which git" ELSE "which gh", ok)
        /\ IF ok
           THEN /\ pc' = IF pc = "ensure_git" THEN "ensure_gh" ELSE "show_current"
                /\ UNCHANGED result
           ELSE ExitMain(Err("tool is required"))
    /\ UNCHANGED <<args, git, srv, current_branch, pr_data, status, base, polls,
                   reported, envPushes, ciOut>>

\* git branch --show-current
ShowCurrent ==
    /\ pc = "show_current"
    /\ \E ok \in BOOLEAN :
        /\ Issue("git branch --show-current", ok)
        /\ IF ok
           THEN /\ current_branch' = git.HEAD
                /\ pc' = "get_repo_data"
                /\ UNCHANGED result
           ELSE /\ ExitMain(Err("getting current branch"))
                /\ UNCHANGED current_branch
    /\ UNCHANGED <<args, git, srv, pr_data, status, base, polls, reported,
                   envPushes, ciOut>>

\* get_repo_data: owner_login and default_branch, from two gh queries
get_repo_data ==
    /\ pc = "get_repo_data"
    /\ \/ /\ Issue("gh repo view", FALSE)
          /\ ExitMain(Err("getting repo data"))
       \/ /\ \E ok \in BOOLEAN :
                /\ Issue2("gh repo view", TRUE, "gh api graphql", ok)
                /\ IF ok
                   THEN pc' = "resolve" /\ UNCHANGED result
                   ELSE ExitMain(Err("getting repo data"))
    /\ UNCHANGED <<args, git, srv, current_branch, pr_data, status, base, polls,
                   reported, envPushes, ciOut>>

\* what get_repo_data returned
repo_data == [owner_login |-> OwnerLogin, default_branch |-> BaseName]

\* PrData::new without a fork: no command is run
from_branch(branch) == [fork_owner |-> None, remote |-> None, branch |-> branch]

\* the match on (args.branch_or_pr_number, current_branch), and the head of PrData::parse
Resolve ==
    /\ pc = "resolve"
    /\ LET tok == args.branch_or_pr_number
       IN  IF tok = None
           THEN IF current_branch = repo_data.default_branch
                THEN ExitMain(Err("on default branch")) /\ UNCHANGED pr_data
                ELSE /\ pr_data' = from_branch(current_branch)
                     /\ pc' = "poll_status"
                     /\ UNCHANGED result
           ELSE IF IsU64(tok.v)
                THEN pc' = "pr_view_number" /\ UNCHANGED <<pr_data, result>>
           ELSE IF split_once(tok.v) # None
                THEN pc' = "pr_view_fork" /\ UNCHANGED <<pr_data, result>>
           ELSE /\ pr_data' = from_branch(tok.v)
                /\ pc' = "poll_status"
                /\ UNCHANGED result
    /\ UNCHANGED <<args, git, srv, current_branch, status, base, log, polls,
                   reported, envPushes, ciOut>>

\* PrData::parse, PR number: gh pr view {number} --json headRefName,headRepository,headRepositoryOwner
PrViewNumber ==
    /\ pc = "pr_view_number"
    /\ \E ok \in BOOLEAN :
      LET head_owner == srv.head_owner IN
        /\ Issue("gh pr view head", ok)
        /\ IF ~ok
           THEN ExitMain(Err("getting pr data")) /\ UNCHANGED pr_data
           ELSE IF repo_data.owner_login # head_owner
                THEN /\ pr_data' = [fork_owner |-> Some(head_owner), remote |-> None,
                                    branch |-> HeadName]
                     /\ pc' = "fork_url"
                     /\ UNCHANGED result
                ELSE /\ pr_data' = from_branch(HeadName)
                     /\ pc' = "poll_status"
                     /\ UNCHANGED result
    /\ UNCHANGED <<args, git, srv, current_branch, status, base, polls, reported,
                   envPushes, ciOut>>

\* PrData::parse, owner:branch: gh pr view {branch_or_pr_number} --json headRepository
PrViewFork ==
    /\ pc = "pr_view_fork"
    /\ \E ok \in BOOLEAN :
        /\ Issue("gh pr view head", ok)
        /\ IF ~ok
           THEN ExitMain(Err("getting pr data")) /\ UNCHANGED pr_data
           ELSE LET parts == split_once(args.branch_or_pr_number.v)
                IN  /\ pr_data' = [fork_owner |-> Some(parts.left), remote |-> None,
                                   branch |-> parts.right]
                    /\ pc' = "fork_url"
                    /\ UNCHANGED result
    /\ UNCHANGED <<args, git, srv, current_branch, status, base, polls, reported,
                   envPushes, ciOut>>

\* PrData::new with a fork: gh repo view {owner}/{repo} --json sshUrl
ForkUrl ==
    /\ pc = "fork_url"
    /\ \E ok \in BOOLEAN :
        /\ Issue("gh repo view fork", ok)
        /\ IF ok
           THEN pc' = "remote_add" /\ UNCHANGED result
           ELSE ExitMain(Err("getting foreign ssh url"))
    /\ UNCHANGED <<args, git, srv, current_branch, pr_data, status, base, polls,
                   reported, envPushes, ciOut>>

\* variant: the guard exists before the command has run, so its Drop runs when the
\* command fails
RemoteGuard_new_GuardFirst ==
    /\ pc = "remote_add"
    /\ LET name == pr_data.fork_owner.v
       IN  \E ok \in IF name \in git.remotes THEN {FALSE} ELSE BOOLEAN :
            /\ Issue("git remote add", ok)
            /\ pr_data' = [pr_data EXCEPT !.remote = Some(name)]
            /\ IF ok
               THEN /\ git' = [git EXCEPT !.remotes = @ \cup {name}]
                    /\ pc' = "poll_status"
                    /\ UNCHANGED result
               ELSE /\ result' = Err("adding remote")
                    /\ pc' = "drop"
                    /\ UNCHANGED git
    /\ UNCHANGED <<args, srv, current_branch, status, base, polls, reported,
                   envPushes, ciOut>>

\* RemoteGuard::new: git remote add --no-fetch --no-tags {name} {url}
\* (git refuses a name that is already a remote)
RemoteGuard_new ==
    /\ pc = "remote_add"
    /\ LET name == pr_data.fork_owner.v
       IN  \E ok \in IF name \in git.remotes THEN {FALSE} ELSE BOOLEAN :
            /\ Issue("git remote add", ok)
            /\ IF ok
               THEN /\ git' = [git EXCEPT !.remotes = @ \cup {name}]
                    /\ pr_data' = [pr_data EXCEPT !.remote = Some(name)]
                    /\ pc' = "poll_status"
                    /\ UNCHANGED result
               ELSE /\ ExitMain(Err("adding remote"))
                    /\ UNCHANGED <<git, pr_data>>
    /\ UNCHANGED <<args, srv, current_branch, status, base, polls, reported,
                   envPushes, ciOut>>

\* Drop for RemoteGuard: git remote remove {name}, its result ignored
RemoteGuard_drop ==
    /\ pc = "drop"
    /\ \E ok \in BOOLEAN :
        /\ Issue("git remote remove", ok)
        /\ git' = IF ok THEN [git EXCEPT !.remotes = @ \ {pr_data.remote.v}] ELSE git
    /\ pc' = "done"
    /\ UNCHANGED <<args, srv, current_branch, pr_data, status, base, result, polls,
                   reported, envPushes, ciOut>>

----------------------------------------------------------------------------
(* Review and CI gates *)

\* poll_status, first call (line 392)
poll_status ==
    /\ pc = "poll_status"
    /\ \/ /\ Issue("gh pr view status", FALSE)
          /\ ExitMain(Err("getting status from github"))
          /\ UNCHANGED status
       \/ /\ Issue("gh pr view status", TRUE)
          /\ status' \in Snapshots
          /\ pc' = "approval_gate"
          /\ UNCHANGED result
    /\ polls' = polls + 1
    /\ UNCHANGED <<args, git, srv, current_branch, pr_data, base, reported,
                   envPushes, ciOut>>

\* if !status.is_approved() { bail!(..) }
ApprovalGate ==
    /\ pc = "approval_gate"
    /\ IF is_approved(status)
       THEN pc' = "wait_for_ci" /\ UNCHANGED result
       ELSE ExitMain(Err("has not been approved"))
    /\ UNCHANGED <<args, git, srv, current_branch, pr_data, status, base, log,
                   polls, reported, envPushes, ciOut>>

\* variant: the loop condition is not looked at, the status is not fetched again
WaitForCi_NoLoop ==
    /\ pc = "wait_for_ci"
    /\ pc' = "ci_gate"
    /\ UNCHANGED <<status, result, log, polls>>
    /\ UNCHANGED <<args, git, srv, current_branch, pr_data, base, reported,
                   envPushes, ciOut>>

\* if args.wait_for_ci { while status.ci_state() == Incomplete { sleep; poll_status } }
\* one evaluation of the loop condition, and one turn of the loop when it holds
WaitForCi ==
    /\ pc = "wait_for_ci"
    /\ IF args.wait_for_ci /\ ci_state(status) = Incomplete
       THEN /\ polls < MaxPolls
            /\ polls' = polls + 1
            /\ \/ /\ Issue2("sleep ci_poll_interval", TRUE, "gh pr view status", FALSE)
                  /\ ExitMain(Err("getting status from github"))
                  /\ UNCHANGED status
               \/ /\ Issue2("sleep ci_poll_interval", TRUE, "gh pr view status", TRUE)
                  /\ status' \in Snapshots
                  /\ UNCHANGED <<pc, result>>
       ELSE /\ pc' = "ci_gate"
            /\ UNCHANGED <<status, result, log, polls>>
    /\ UNCHANGED <<args, git, srv, current_branch, pr_data, base, reported,
                   envPushes, ciOut>>

\* the runs the CI gate prints: those that are not is_successy, each with its state
RECURSIVE NonSuccess(_)
NonSuccess(runs) ==
    IF runs = <<>> THEN <<>>
    ELSE (IF ~is_successy(Head(runs))
          THEN <<[run |-> Head(runs), state |-> CheckRun_state(Head(runs))]>>
          ELSE <<>>) \o NonSuccess(Tail(runs))

\* variant: the gate looks at the review decision of the latest snapshot again
CiGate_RechecksApproval ==
    /\ pc = "ci_gate"
    /\ IF ~is_approved(status)
       THEN ExitMain(Err("has not been approved")) /\ UNCHANGED reported
       ELSE IF ~args.ignore_ci /\ ci_state(status) # Success
       THEN /\ reported' = NonSuccess(check_runs(status))
            /\ ExitMain(Err("some ci checks are incomplete or unsuccessful"))
       ELSE /\ pc' = "dry_run"
            /\ UNCHANGED <<reported, result>>
    /\ UNCHANGED <<args, git, srv, current_branch, pr_data, status, base, log,
                   polls, envPushes, ciOut>>

\* if !args.ignore_ci && status.ci_state() != Success { print; bail!(..) }
CiGate ==
    /\ pc = "ci_gate"
    /\ IF ~args.ignore_ci /\ ci_state(status) # Success
       THEN /\ reported' = NonSuccess(check_runs(status))
            /\ ExitMain(Err("some ci checks are incomplete or unsuccessful"))
       ELSE /\ pc' = "dry_run"
            /\ UNCHANGED <<reported, result>>
    /\ UNCHANGED <<args, git, srv, current_branch, pr_data, status, base, log,
                   polls, envPushes, ciOut>>

\* if args.dry_run { return Ok(()) }; let base = status.base_ref_name
DryRun ==
    /\ pc = "dry_run"
    /\ IF args.dry_run
       THEN ExitMain(Ok) /\ UNCHANGED <<base, status>>
       ELSE /\ base' = status.base_ref_name
            /\ status' = NoStatus
            /\ pc' = "fetch_head"
            /\ UNCHANGED result
    /\ UNCHANGED <<args, git, srv, current_branch, pr_data, log, polls, reported,
                   envPushes, ciOut>>

----------------------------------------------------------------------------
(* The git sequence *)

AfterGates == <<args, current_branch, pr_data, status, base, polls, reported,
                envPushes, ciOut>>

\* variant: a failed fetch of the head branch does not end the run
FetchHead_IgnoreFailure ==
    /\ pc = "fetch_head"
    /\ \E ok \in BOOLEAN :
        /\ Issue("git fetch head", ok)
        /\ git' = IF ok THEN [git EXCEPT !.trkHead = srv.head] ELSE git
        /\ pc' = "checkout_head"
        /\ UNCHANGED result
    /\ UNCHANGED srv
    /\ UNCHANGED AfterGates

\* git fetch --no-all --no-tags {head_remote} {branch}
FetchHead ==
    /\ pc = "fetch_head"
    /\ \E ok \in BOOLEAN :
        /\ Issue("git fetch head", ok)
        /\ IF ok
           THEN /\ git' = [git EXCEPT !.trkHead = srv.head]
                /\ pc' = "checkout_head"
                /\ UNCHANGED result
           ELSE ExitMain(Err("git fetch")) /\ UNCHANGED git
    /\ UNCHANGED srv
    /\ UNCHANGED AfterGates

\* git checkout --no-guess {branch}: needs the local branch
CheckoutHead ==
    /\ pc = "checkout_head"
    /\ \E ok \in IF git.locHead = NoCommit THEN {FALSE} ELSE BOOLEAN :
        /\ Issue("git checkout head", ok)
        /\ IF ok
           THEN git' = [git EXCEPT !.HEAD = pr_data.branch] /\ pc' = "sync_check"
           ELSE UNCHANGED git /\ pc' = "checkout_track"
    /\ UNCHANGED <<srv, result>>
    /\ UNCHANGED AfterGates

\* git checkout --no-guess -b {branch} --track {head_remote}/{branch} --
\* (git refuses to create a branch that exists)
CheckoutTrack ==
    /\ pc = "checkout_track"
    /\ \E ok \in IF git.locHead # NoCommit \/ git.trkHead = NoCommit THEN {FALSE} ELSE BOOLEAN :
        /\ Issue("git checkout -b head", ok)
        /\ IF ok
           THEN /\ git' = [git EXCEPT !.HEAD = pr_data.branch, !.locHead = git.trkHead]
                /\ pc' = "sync_check"
                /\ UNCHANGED result
           ELSE ExitMain(Err("git checkout branch")) /\ UNCHANGED git
    /\ UNCHANGED srv
    /\ UNCHANGED AfterGates

\* variant: the two SHAs are never compared
local_branch_matches_remote_Always(g) == TRUE

\* local_branch_matches_remote: branch_sha == remote_branch_sha
local_branch_matches_remote(g) == g.locHead = g.trkHead

\* the two `git rev-parse` reads of local_branch_matches_remote; r is "ok" or the read that failed
RevParse(r) ==
    IF r = "branch" THEN Issue("git rev-parse branch", FALSE)
    ELSE Issue2("git rev-parse branch", TRUE, "git rev-parse remote/branch", r = "ok")

RevParseErr(r) ==
    IF r = "branch" THEN Err("reading branch sha") ELSE Err("reading remote branch sha")

\* line 450: the sync check before the rebase
SyncCheck ==
    /\ pc = "sync_check"
    /\ \E r \in {"ok", "branch", "remote"} :
        /\ RevParse(r)
        /\ IF r # "ok" THEN ExitMain(RevParseErr(r))
           ELSE IF ~local_branch_matches_remote(git)
                THEN ExitMain(Err("local branch differs from remote branch"))
           ELSE pc' = "fetch_base" /\ UNCHANGED result
    /\ UNCHANGED <<git, srv>>
    /\ UNCHANGED AfterGates

\* git fetch {remote}: every branch of the remote, so the head's tracking ref too
\* when the head lives on that remote
FetchBase ==
    /\ pc = "fetch_base"
    /\ \E ok \in BOOLEAN :
        /\ Issue("git fetch remote", ok)
        /\ IF ok
           THEN /\ git' = [git EXCEPT !.trkBase = srv.base,
                                      !.trkHead = IF head_remote = args.remote
                                                  THEN srv.head ELSE @]
                /\ pc' = "rebase"
                /\ UNCHANGED result
           ELSE ExitMain(Err("fetching remote")) /\ UNCHANGED git
    /\ UNCHANGED srv
    /\ UNCHANGED AfterGates

\* the ways `git rebase {remote}/{base}` can end: done; stopped on a conflict (only
\* when commits are replayed onto a base they were not made on); refused to start
RebaseOutcomes(g) ==
    {"ok", "refused"} \cup
    (IF ~Ancestor(g.trkBase, g.locHead) /\ ~Ancestor(g.locHead, g.trkBase)
     THEN {"conflict"} ELSE {})

\* the command line of line 457: it holds no --autosquash, and a.no_autosquash is
\* not read here or anywhere else in main
RebaseCommand(a) == "git rebase"

\* git applies fixup!/squash! commits in a rebase that is not interactive only when
\* the command line asks for it
Autosquashes(cmd) == cmd = "git rebase --autosquash"

\* let rebase_result = cmd!(sh, "git rebase {remote}/{base}").run()
Rebase ==
    /\ pc = "rebase"
    /\ \E o \in RebaseOutcomes(git) :
        /\ Issue(RebaseCommand(args), o = "ok")
        /\ git' = IF o = "ok" THEN [git EXCEPT !.locHead = RebaseOnto(@, git.trkBase)]
                  ELSE IF o = "conflict" THEN [git EXCEPT !.rebasing = TRUE]
                  ELSE git
        /\ pc' = IF o = "ok" THEN "post_rebase_check" ELSE "rebase_abort"
    /\ UNCHANGED <<srv, result>>
    /\ UNCHANGED AfterGates

\* git rebase --abort (fails when no rebase is in progress); then the bail! of line 462
RebaseAbort ==
    /\ pc = "rebase_abort"
    /\ \E ok \in IF git.rebasing THEN BOOLEAN ELSE {FALSE} :
        /\ Issue("git rebase --abort", ok)
        /\ IF ok
           THEN /\ git' = [git EXCEPT !.rebasing = FALSE]
                /\ ExitMain(Err("did not cleanly rebase"))
           ELSE /\ UNCHANGED git
                /\ ExitMain(Err("aborting rebase"))
    /\ UNCHANGED srv
    /\ UNCHANGED AfterGates

\* variant: the branch is force-pushed whether the rebase moved the tip or not
PostRebaseCheck_AlwaysPush ==
    /\ pc = "post_rebase_check"
    /\ \E r \in {"ok", "branch", "remote"} :
        /\ RevParse(r)
        /\ IF r # "ok" THEN ExitMain(RevParseErr(r))
           ELSE pc' = "force_push" /\ UNCHANGED result
    /\ UNCHANGED <<git, srv>>
    /\ UNCHANGED AfterGates

\* line 467: has the rebase moved the tip
PostRebaseCheck ==
    /\ pc = "post_rebase_check"
    /\ \E r \in {"ok", "branch", "remote"} :
        /\ RevParse(r)
        /\ IF r # "ok" THEN ExitMain(RevParseErr(r))
           ELSE IF ~local_branch_matches_remote(git)
                THEN pc' = "force_push" /\ UNCHANGED result
           ELSE pc' = "checkout_base" /\ UNCHANGED result
    /\ UNCHANGED <<git, srv>>
    /\ UNCHANGED AfterGates

\* git push --force-with-lease {head_remote} {branch}, then the sleep of wait_after_rebase
\* (the lease: the remote branch is still where the tracking ref says)
ForcePush ==
    /\ pc = "force_push"
    /\ \/ /\ Issue("git push --force-with-lease", FALSE)
          /\ ExitMain(Err("force-pushing branch"))
          /\ UNCHANGED <<git, srv>>
       \/ /\ srv.head = git.trkHead
          /\ Issue2("git push --force-with-lease", TRUE, "sleep wait_after_rebase", TRUE)
          /\ srv' = [srv EXCEPT !.head = git.locHead]
          /\ git' = [git EXCEPT !.trkHead = git.locHead]
          /\ pc' = "checkout_base"
          /\ UNCHANGED result
    /\ UNCHANGED AfterGates

\* git checkout {base}: the local branch, created from the tracking ref when absent
CheckoutBase ==
    /\ pc = "checkout_base"
    /\ \E ok \in BOOLEAN :
        /\ Issue("git checkout base", ok)
        /\ IF ok
           THEN /\ git' = [git EXCEPT !.HEAD = base,
                                      !.locBase = IF @ = NoCommit THEN git.trkBase ELSE @]
                /\ pc' = "merge"
                /\ UNCHANGED result
           ELSE ExitMain(Err("checking out base")) /\ UNCHANGED git
    /\ UNCHANGED srv
    /\ UNCHANGED AfterGates

\* git merge {branch} --ff-only on base: nothing to do when base contains the branch,
\* base moved to the branch when it is an ancestor of it, refused otherwise
MergeResult(g) ==
    IF Ancestor(g.locHead, g.locBase) THEN Some(g.locBase)
    ELSE IF Ancestor(g.locBase, g.locHead) THEN Some(g.locHead)
    ELSE None

\* git merge {branch} --ff-only
Merge ==
    /\ pc = "merge"
    /\ \E ok \in IF MergeResult(git) = None THEN {FALSE} ELSE BOOLEAN :
        /\ Issue("git merge --ff-only", ok)
        /\ IF ok
           THEN /\ git' = [git EXCEPT !.locBase = MergeResult(git).v]
                /\ pc' = "push_base"
                /\ UNCHANGED result
           ELSE ExitMain(Err("performing ff-only merge to base")) /\ UNCHANGED git
    /\ UNCHANGED srv
    /\ UNCHANGED AfterGates

\* the server takes a push of base only as a fast-forward of its own tip
PushAccepted == IF Ancestor(srv.base, git.locBase) THEN BOOLEAN ELSE {FALSE}

PushBaseEffect ==
    /\ srv' = [srv EXCEPT !.base = git.locBase]
    /\ git' = [git EXCEPT !.trkBase = git.locBase]

\* let push_result = cmd!(sh, "git push {remote} {base}").run()
PushBase ==
    /\ pc = "push_base"
    /\ \E ok \in PushAccepted :
        /\ Issue("git push base", ok)
        /\ IF ok
           THEN PushBaseEffect /\ pc' = "cleanup"
           ELSE UNCHANGED <<git, srv>> /\ pc' = "push_retry"
    /\ UNCHANGED result
    /\ UNCHANGED AfterGates

\* variant: a failed retry is retried
PushRetryFailed_Again == pc' = "push_retry" /\ UNCHANGED result

\* the `?` of line 498
PushRetryFailed == ExitMain(Err("2nd attempt to push to base"))

\* if push_result.is_err(): sleep push_retry_interval, then git push {remote} {base} again
PushRetry ==
    /\ pc = "push_retry"
    /\ \E ok \in PushAccepted :
        /\ Issue2("sleep push_retry_interval", TRUE, "git push base", ok)
        /\ IF ok
           THEN PushBaseEffect /\ pc' = "cleanup" /\ UNCHANGED result
           ELSE UNCHANGED <<git, srv>> /\ PushRetryFailed
    /\ UNCHANGED AfterGates

\* variant: retain_branch is not looked at
Cleanup_AlwaysDelete ==
    /\ pc = "cleanup"
    /\ \E ok \in BOOLEAN :
        /\ Issue("git branch -D", ok)
        /\ IF ok
           THEN git' = [git EXCEPT !.locHead = NoCommit] /\ ExitMain(Ok)
           ELSE UNCHANGED git /\ ExitMain(Err("removing merged branch"))
    /\ UNCHANGED srv
    /\ UNCHANGED AfterGates

\* if !args.retain_branch { git branch -D {branch} }; Ok(())
Cleanup ==
    /\ pc = "cleanup"
    /\ IF args.retain_branch
       THEN ExitMain(Ok) /\ UNCHANGED <<git, log>>
       ELSE \E ok \in BOOLEAN :
            /\ Issue("git branch -D", ok)
            /\ IF ok
               THEN git' = [git EXCEPT !.locHead = NoCommit] /\ ExitMain(Ok)
               ELSE UNCHANGED git /\ ExitMain(Err("removing merged branch"))
    /\ UNCHANGED srv
    /\ UNCHANGED AfterGates

\* someone else pushes a commit to the base branch while the run is between its
\* fetch of the base and its push (an earlier push is a different initial srv.base)
OtherPush ==
    /\ pc \in {"rebase", "post_rebase_check", "force_push", "checkout_base", "merge",
               "push_base", "push_retry"}
    /\ envPushes < MaxEnvPushes
    /\ envPushes' = envPushes + 1
    /\ srv' = [srv EXCEPT !.base = Append(@, C(20 + envPushes))]
    /\ UNCHANGED <<args, pc, git, current_branch, pr_data, status, base, result, log,
                   polls, reported, ciOut>>

Next ==
    \/ ensure_tool \/ ShowCurrent \/ get_repo_data \/ Resolve \/ PrViewNumber
    \/ PrViewFork \/ ForkUrl \/ RemoteGuard_new \/ RemoteGuard_drop
    \/ poll_status \/ ApprovalGate \/ WaitForCi \/ CiGate \/ DryRun
    \/ FetchHead \/ CheckoutHead \/ CheckoutTrack \/ SyncCheck \/ FetchBase
    \/ Rebase \/ RebaseAbort \/ PostRebaseCheck \/ ForcePush \/ CheckoutBase
    \/ Merge \/ PushBase \/ PushRetry \/ Cleanup \/ OtherPush

Spec == Init /\ [][Next]_vars

----------------------------------------------------------------------------
(* Status::ci_state on its own: the rollup is drawn from the sequences of   *)
(* at most MaxChecks sample entries, evaluated, then permuted or changed in *)
(* its StatusContext entries and evaluated again.                          *)

RECURSIVE SeqsUpTo(_, _)
SeqsUpTo(S, n) ==
    IF n = 0 THEN {<<>>}
    ELSE LET shorter == SeqsUpTo(S, n - 1)
         IN  shorter \cup {Append(q, x) : q \in shorter, x \in S}

IdleArgs ==
    [branch_or_pr_number |-> None, ignore_ci |-> FALSE, wait_for_ci |-> FALSE,
     dry_run |-> FALSE, retain_branch |-> FALSE, no_autosquash |-> FALSE,
     remote |-> RemoteOrigin]

IdleGit ==
    [HEAD |-> BaseName, locBase |-> B0, locHead |-> NoCommit, trkBase |-> B0,
     trkHead |-> NoCommit, remotes |-> {RemoteOrigin}, rebasing |-> FALSE]

RunIdle ==
    /\ args = IdleArgs
    /\ git = IdleGit
    /\ srv = [base |-> B0, head |-> F0, head_owner |-> OwnerLogin]
    /\ current_branch = <<>>
    /\ pr_data = NoPrData
    /\ base = <<>>
    /\ result = Ok
    /\ log = <<>>
    /\ polls = 0
    /\ reported = <<>>
    /\ envPushes = 0

RunUnchanged ==
    UNCHANGED <<args, git, srv, current_branch, pr_data, base, result, log, polls,
                reported, envPushes>>

InitCi ==
    /\ RunIdle
    /\ pc = "ci_input"
    /\ status \in {MkStatus("APPROVED", r) : r \in SeqsUpTo(CheckSamples, MaxChecks)}
    /\ ciOut = "-"

\* status.ci_state()
CiEval ==
    /\ pc = "ci_input"
    /\ ciOut' = ci_state(status)
    /\ pc' = "ci_evaluated"
    /\ UNCHANGED status
    /\ RunUnchanged

Rollup == status.status_check_rollup

\* the same entries with two neighbours exchanged, evaluated again
CiSwap ==
    /\ pc = "ci_evaluated"
    /\ \E i \in 1..(Len(Rollup) - 1) :
        status' = [status EXCEPT !.status_check_rollup =
                      [@ EXCEPT ![i] = Rollup[i + 1], ![i + 1] = Rollup[i]]]
    /\ ciOut' = ci_state(status')
    /\ UNCHANGED pc
    /\ RunUnchanged

\* one more StatusContext entry, anywhere, evaluated again
CiAddContext ==
    /\ pc = "ci_evaluated"
    /\ Len(Rollup) < MaxChecks
    /\ \E i \in 0..Len(Rollup) :
        status' = [status EXCEPT !.status_check_rollup =
                      SubSeq(Rollup, 1, i) \o <<StatusContext>>
                          \o SubSeq(Rollup, i + 1, Len(Rollup))]
    /\ ciOut' = ci_state(status')
    /\ UNCHANGED pc
    /\ RunUnchanged

\* one StatusContext entry fewer, evaluated again
CiDropContext ==
    /\ pc = "ci_evaluated"
    /\ \E i \in 1..Len(Rollup) :
        /\ Rollup[i].typename = "StatusContext"
        /\ status' = [status EXCEPT !.status_check_rollup =
                         SubSeq(Rollup, 1, i - 1) \o SubSeq(Rollup, i + 1, Len(Rollup))]
    /\ ciOut' = ci_state(status')
    /\ UNCHANGED pc
    /\ RunUnchanged

NextCi == CiEval \/ CiSwap \/ CiAddContext \/ CiDropContext

SpecCi == InitCi /\ [][NextCi]_vars

----------------------------------------------------------------------------
(* CheckRun::state on its own: one check run, its status and conclusion     *)
(* drawn from the values GitHub reports and some it does not.               *)

StatusValues ==
    {None} \cup {Some(s) : s \in {"", "COMPLETED", "QUEUED", "IN_PROGRESS", "WAITING",
                                  "REQUESTED", "PENDING", "completed"}}

ConclusionValues ==
    {"", "SUCCESS", "SKIPPED", "NEUTRAL", "FAILURE", "CANCELLED", "TIMED_OUT",
     "ACTION_REQUIRED", "STARTUP_FAILURE", "STALE"}

InitState ==
    /\ RunIdle
    /\ pc = "state_input"
    /\ status \in {MkStatus("APPROVED", <<CheckRun(s, c)>>) :
                      s \in StatusValues, c \in ConclusionValues}
    /\ ciOut = "-"

\* check_run.state()
StateEval ==
    /\ pc = "state_input"
    /\ ciOut' = CheckRun_state(Rollup[1])
    /\ pc' = "state_evaluated"
    /\ UNCHANGED status
    /\ RunUnchanged

NextState == StateEval

SpecState == InitState /\ [][NextState]_vars

----------------------------------------------------------------------------
(* What the log says *)

Cmds == {log[i].cmd : i \in 1..Len(log)}
Count(c) == Cardinality({i \in 1..Len(log) : log[i].cmd = c})
Issued(c, ok) == \E i \in 1..Len(log) : log[i] = [cmd |-> c, ok |-> ok]
Terminated == pc \in {"drop", "done"}

\* git commands that only read
ReadOnlyGit == {"git branch --show-current", "git rev-parse branch",
                "git rev-parse remote/branch"}

\* git commands that write to the repository, its configuration or a remote
MutatingGit == {"git remote add", "git remote remove", "git fetch head",
                "git checkout head", "git checkout -b head", "git fetch remote",
                "git rebase", "git rebase --abort", "git push --force-with-lease",
                "git checkout base", "git merge --ff-only", "git push base",
                "git branch -D"}

\* the commands that follow the pre-rebase sync check
AfterSyncCheck == {"git fetch remote", "git rebase", "git rebase --abort",
                   "git push --force-with-lease", "git checkout base",
                   "git merge --ff-only", "git push base", "git branch -D"}

Refs(g) == <<g.HEAD, g.locBase, g.locHead, g.trkBase, g.trkHead, g.rebasing>>

----------------------------------------------------------------------------
(* Claims *)

\* C1: whenever a push of the base branch succeeds, the commit that becomes the
\* remote base tip is the tip of the rebased head branch, the base tip seen by the
\* fetch of the base is an ancestor of it, it is no merge commit, and it descends
\* from the previous remote base tip.
C1_LinearHistory ==
    [][(pc \in {"push_base", "push_retry"} /\ pc' = "cleanup")
         => /\ srv'.base = git.locHead
            /\ Ancestor(git.trkBase, srv'.base)
            /\ ~IsMergeCommit(srv'.base)
            /\ Ancestor(srv.base, srv'.base)]_vars

\* C2: once the fork remote has been added, its removal is issued exactly once on
\* every way out of main, as the last command of the run and not before the run
\* has ended, and the removal's own outcome leaves main's result as it was.
C2_RemoteBindingLifetime ==
    /\ [](Issued("git remote add", TRUE)
            => /\ pc = "done" => /\ Count("git remote remove") = 1
                                 /\ Last(log).cmd = "git remote remove"
               /\ pc # "done" => "git remote remove" \notin Cmds)
    /\ [][pc = "drop" => (pc' = "done" /\ result' = result)]_vars

\* C2 witness: a run that added the fork remote, failed in the rebase and has removed
\* the remote on its way out
C2_Witness ==
    /\ pc = "done"
    /\ result = Err("did not cleanly rebase")
    /\ Issued("git remote add", TRUE)
    /\ Last(log).cmd = "git remote remove"

NotApproved == Err("has not been approved")

SyncCheckFailures == {Err("local branch differs from remote branch"),
                      Err("reading branch sha"), Err("reading remote branch sha")}

\* C4: when the local branch tip and the head remote's tracking tip differ at the
\* pre-rebase sync check, the run ends there with a failure, and no fetch of the base,
\* rebase, force-push, base checkout, merge, base push or branch deletion is issued,
\* then or later.
C4_SyncCheck ==
    /\ [][(pc = "sync_check" /\ git.locHead # git.trkHead)
            => /\ Terminated'
               /\ result' \in SyncCheckFailures
               /\ Cmds' \cap AfterSyncCheck = {}]_vars
    /\ [][Terminated => (Terminated' /\ Cmds' \subseteq Cmds \cup {"git remote remove"})]_vars

\* C4 witness: a run ended by the sync check with both SHAs read and found different
C4_Witness ==
    /\ pc = "done"
    /\ result = Err("local branch differs from remote branch")
    /\ git.locHead # git.trkHead
    /\ Issued("git rev-parse remote/branch", TRUE)

\* C5: whenever the rebase command has failed, an abort was issued, the run ends with
\* the "did not cleanly rebase" failure, the repository is not mid-rebase but on the
\* head branch, and no push, merge or branch deletion was issued.
C5_RebaseFailure ==
    (Terminated /\ Issued("git rebase", FALSE))
        => /\ "git rebase --abort" \in Cmds
           /\ result = Err("did not cleanly rebase")
           /\ ~git.rebasing
           /\ git.HEAD = pr_data.branch
           /\ Cmds \cap {"git push --force-with-lease", "git merge --ff-only",
                         "git push base", "git branch -D"} = {}

PushIndexes == {i \in 1..Len(log) : log[i].cmd = "git push base"}

\* C6: the base push is attempted at most twice; there is a second attempt exactly
\* when the first failed, and the retry sleep comes right before it; a successful
\* attempt leads to the cleanup, a failed first attempt to the retry, a failed second
\* attempt to the end of the run with a failure.
C6_PushRetry ==
    /\ [](/\ Cardinality(PushIndexes) <= 2
          /\ \A i \in PushIndexes, j \in PushIndexes :
                i < j => /\ ~log[i].ok
                         /\ log[j - 1].cmd = "sleep push_retry_interval"
                         /\ i < j - 1
          /\ Count("sleep push_retry_interval") = (IF Cardinality(PushIndexes) = 2 THEN 1 ELSE 0)
          /\ (Terminated /\ Issued("git push base", FALSE)) => Cardinality(PushIndexes) = 2)
    /\ [][(pc \in {"push_base", "push_retry"} /\ log' # log)
            => IF Last(log').ok THEN pc' = "cleanup"
               ELSE IF pc = "push_base" THEN pc' = "push_retry"
               ELSE Terminated' /\ result' = Err("2nd attempt to push to base")]_vars

\* C6 witness: the first push failed, the second succeeded, the run is at the cleanup
C6_Witness ==
    /\ pc = "cleanup"
    /\ Cardinality(PushIndexes) = 2
    /\ Last(log) = [cmd |-> "git push base", ok |-> TRUE]

\* C7: a dry run that ends successfully has issued no mutating git command.
C7_DryRunNoMutation ==
    (args.dry_run /\ pc = "done" /\ result.ok) => Cmds \cap MutatingGit = {}

\* C8: with ignore-ci the run never sleeps in the polling loop, fetches the status
\* once only, and never fails on a status fetched for CI.
C8_IgnoreCiSkipsGate ==
    args.ignore_ci
        => /\ "sleep ci_poll_interval" \notin Cmds
           /\ Count("gh pr view status") <= 1
           /\ result # Err("some ci checks are incomplete or unsuccessful")

IsRun(c) == c.typename = "CheckRun"

\* the aggregate as the precedence rule states it
Aggregate(rollup) ==
    IF \E i \in 1..Len(rollup) : IsRun(rollup[i]) /\ CheckRun_state(rollup[i]) = Fail
    THEN Fail
    ELSE IF \E i \in 1..Len(rollup) :
                IsRun(rollup[i]) /\ CheckRun_state(rollup[i]) = Incomplete
    THEN Incomplete
    ELSE Success

\* C9: ci_state is Fail when some CheckRun classifies as Fail, wherever it stands;
\* Incomplete when none does and some CheckRun classifies as Incomplete; Success
\* otherwise; and exchanging entries never changes it.
C9_CiPrecedence ==
    /\ [](pc = "ci_evaluated" => ciOut = Aggregate(Rollup))
    /\ [][CiSwap => ciOut' = ciOut]_vars

\* C9 witness: an Incomplete run stands before a failed one, and the result is Fail
C9_Witness ==
    /\ pc = "ci_evaluated"
    /\ Rollup = <<RunPending, RunFailed, RunOk>>
    /\ ciOut = Fail

\* C10: adding or removing a StatusContext entry never changes the aggregate, and a
\* rollup without any CheckRun aggregates to Success.
C10_StatusContextIgnored ==
    /\ [][(CiAddContext \/ CiDropContext) => ciOut' = ciOut]_vars
    /\ []((pc = "ci_evaluated" /\ \A i \in 1..Len(Rollup) : ~IsRun(Rollup[i]))
            => ciOut = Success)

\* C10 witness: a rollup of StatusContext entries only, evaluated
C10_Witness ==
    /\ pc = "ci_evaluated"
    /\ Rollup = <<StatusContext, StatusContext>>
    /\ ciOut = Success

----------------------------------------------------------------------------
(* The order of the git sequence *)

\* the commands of the git sequence (lines 428-507)
StepCmds == {"git fetch head", "git checkout head", "git checkout -b head",
             "git rev-parse branch", "git rev-parse remote/branch",
             "git fetch remote", "git rebase", "git rebase --abort",
             "git push --force-with-lease", "git checkout base",
             "git merge --ff-only", "git push base", "git branch -D"}

StepIdx == {i \in 1..Len(log) : log[i].cmd \in StepCmds}

\* the step a logged command belongs to: 1 fetch-head, 2 checkout head (with its
\* fallback), 3 sync-check, 4 fetch-base, 5 rebase (with its abort), 6 force-push
\* (with the comparison that decides it), 7 checkout-base, 8 ff-only merge,
\* 9 push-base (with its retry), 10 delete-branch
StepAt(i) ==
    LET c == log[i].cmd
    IN  IF c = "git fetch head" THEN 1
        ELSE IF c \in {"git checkout head", "git checkout -b head"} THEN 2
        ELSE IF c \in {"git rev-parse branch", "git rev-parse remote/branch"}
             THEN IF \E j \in 1..(i - 1) : log[j].cmd = "git rebase" THEN 6 ELSE 3
        ELSE IF c = "git fetch remote" THEN 4
        ELSE IF c \in {"git rebase", "git rebase --abort"} THEN 5
        ELSE IF c = "git push --force-with-lease" THEN 6
        ELSE IF c = "git checkout base" THEN 7
        ELSE IF c = "git merge --ff-only" THEN 8
        ELSE IF c = "git push base" THEN 9
        ELSE 10

\* a command that a step issues after a command of its own has failed
Fallbacks == {<<"git checkout head", "git checkout -b head">>,
              <<"git rebase", "git rebase --abort">>,
              <<"git push base", "git push base">>}

NextStepIdx(i, j) == j \in StepIdx /\ i < j /\ \A k \in StepIdx : ~(i < k /\ k < j)

\* the names of the successful commands of the git sequence, in order, the fallback
\* checkout under the name of the checkout
RECURSIVE SucceededFrom(_)
SucceededFrom(i) ==
    IF i > Len(log) THEN <<>>
    ELSE IF log[i].cmd \in StepCmds /\ log[i].ok
         THEN <<IF log[i].cmd = "git checkout -b head" THEN "git checkout head"
                ELSE log[i].cmd>> \o SucceededFrom(i + 1)
         ELSE SucceededFrom(i + 1)

DefaultFlags ==
    /\ ~args.ignore_ci /\ ~args.wait_for_ci /\ ~args.dry_run
    /\ ~args.retain_branch /\ ~args.no_autosquash

PlainSequence ==
    <<"git fetch head", "git checkout head",
      "git rev-parse branch", "git rev-parse remote/branch",
      "git fetch remote", "git rebase",
      "git rev-parse branch", "git rev-parse remote/branch",
      "git checkout base", "git merge --ff-only", "git push base", "git branch -D">>

\* C11: in a run that is not a dry run the commands of the git sequence are issued
\* in the order fetch-head, checkout head, sync-check, fetch-base, rebase, optional
\* force-push, checkout-base, ff-only merge, push-base with at most one retry,
\* delete-branch: no step is skipped (but the push of step 6), a step is entered
\* only when every command before it succeeded or was made good by the fallback of
\* its own step (checkout -b after checkout, the second push after the first): the
\* only command that follows a failed one is the fallback of the same step, and
\* nothing follows the abort of a failed rebase. A run with the default flags
\* that returns Ok without a force-push has issued exactly the plain sequence.
C11_StepOrdering ==
    ~args.dry_run =>
        /\ \A i, j \in StepIdx : i < j => StepAt(i) <= StepAt(j)
        /\ \A j \in StepIdx : \A s \in 1..(StepAt(j) - 1) :
               \E i \in StepIdx : i < j /\ StepAt(i) = s
        /\ \A i, j \in StepIdx :
               (~log[i].ok /\ NextStepIdx(i, j)) =>
                   <<log[i].cmd, log[j].cmd>> \in Fallbacks
        /\ \A i, j \in StepIdx : i < j => log[i].cmd # "git rebase --abort"
        /\ Count("git push base") <= 2
        /\ (Terminated /\ result = Ok /\ DefaultFlags
            /\ "git push --force-with-lease" \notin Cmds)
           => SucceededFrom(1) = PlainSequence

\* a run with the default flags has returned Ok without a force-push, its first push
\* of the base refused and the retry accepted
C11_Witness ==
    /\ Terminated /\ result = Ok /\ DefaultFlags
    /\ "git push --force-with-lease" \notin Cmds
    /\ Count("git push base") = 2

----------------------------------------------------------------------------
(* The resolver *)

\* PrData::parse / from_branch has returned Ok: the first status fetch is next or done
Resolved == pc = "poll_status" \/ "gh pr view status" \in Cmds

\* C12: a fork remote is added at most once, the binding exists exactly when its
\* `git remote add` succeeded and is named after the fork owner; once the reference
\* is resolved a binding exists iff a fork was detected; a PR number yields a fork
\* exactly when the head owner differs from the owner of the current repository,
\* and then that owner is the fork owner; an absent token or a bare branch never
\* yields a fork or a remote add; "owner:branch" yields that owner, that branch and
\* a qualified branch equal to the token.
C12_ForkDetection ==
    LET tok == args.branch_or_pr_number
        isNumber == tok # None /\ IsU64(tok.v)
        isPair == tok # None /\ ~IsU64(tok.v) /\ split_once(tok.v) # None
        isBare == tok # None /\ ~IsU64(tok.v) /\ split_once(tok.v) = None
    IN  /\ Count("git remote add") <= 1
        /\ pr_data.remote # None <=> Issued("git remote add", TRUE)
        /\ pr_data.remote # None =>
               pr_data.fork_owner # None /\ pr_data.remote.v = pr_data.fork_owner.v
        /\ (tok = None \/ isBare) =>
               "git remote add" \notin Cmds /\ pr_data.fork_owner = None
        /\ Resolved =>
            /\ pr_data.remote # None <=> pr_data.fork_owner # None
            /\ tok = None => pr_data.branch = current_branch
            /\ isBare => pr_data.branch = tok.v /\ qualified_branch(pr_data) = tok.v
            /\ isNumber =>
                /\ pr_data.fork_owner # None <=> srv.head_owner # repo_data.owner_login
                /\ pr_data.fork_owner # None => pr_data.fork_owner.v = srv.head_owner
            /\ isPair =>
                /\ pr_data.fork_owner = Some(split_once(tok.v).left)
                /\ pr_data.branch = split_once(tok.v).right
                /\ qualified_branch(pr_data) = tok.v

\* an "owner:branch" token has been resolved and its fork remote added
C12_Witness ==
    /\ Resolved
    /\ args.branch_or_pr_number = Some(ForkLogin \o <<":">> \o HeadName)
    /\ pr_data.remote = Some(ForkLogin)
    /\ pr_data.branch = HeadName

----------------------------------------------------------------------------
(* Autosquash *)

\* C13: a rebase issued by a run without no_autosquash applies fixup and squash
\* commits, one issued by a run with no_autosquash does not.
C13_Autosquash ==
    \A i \in 1..Len(log) :
        log[i].cmd \in {"git rebase", "git rebase --autosquash"} =>
            (Autosquashes(log[i].cmd) <=> ~args.no_autosquash)

----------------------------------------------------------------------------
(* Cleanup *)

\* the push of the base succeeded, at the first attempt or the second
ReachedCleanup == Issued("git push base", TRUE)

\* C14 as stated: once the run has ended, the local head branch has been deleted
\* if and only if the run reached cleanup without retain_branch.
C14_CleanupDeletes ==
    Terminated =>
        (Issued("git branch -D", TRUE) <=> (ReachedCleanup /\ ~args.retain_branch))

\* C14, amended: once the run has ended, the deletion of the local head branch has
\* been issued, once, if and only if the run reached cleanup without retain_branch,
\* and the branch is gone when that command succeeded; a branch disappears only by
\* the cleanup of a run that is no dry run, has no retain_branch and has pushed
\* the base; a run that is no dry run and returns Ok has reached cleanup and, without
\* retain_branch, has deleted the branch.
C14_Cleanup ==
    /\ [](Count("git branch -D") <= 1)
    /\ [](Terminated =>
            ("git branch -D" \in Cmds <=> (ReachedCleanup /\ ~args.retain_branch)))
    /\ [](Issued("git branch -D", TRUE) => git.locHead = NoCommit)
    /\ [][(git.locHead # NoCommit /\ git'.locHead = NoCommit) =>
            /\ pc = "cleanup" /\ ReachedCleanup
            /\ ~args.retain_branch /\ ~args.dry_run
            /\ Issued("git branch -D", TRUE)']_vars
    /\ []((Terminated /\ result = Ok /\ ~args.dry_run) =>
            /\ ReachedCleanup
            /\ args.retain_branch => git.locHead # NoCommit
            /\ ~args.retain_branch => Issued("git branch -D", TRUE))

\* a run has pushed the base, deleted the head branch and returned Ok
C14_Witness ==
    /\ Terminated /\ result = Ok
    /\ Issued("git branch -D", TRUE)
    /\ git.locHead = NoCommit

----------------------------------------------------------------------------
(* The polling loop, with a CI that settles and a program that keeps running *)

\* the hosting side reports a state other than Incomplete at the MaxPolls-th fetch
\* at the latest
CiSettles ==
    (pc = "wait_for_ci" /\ pc' = "wait_for_ci" /\ polls' = MaxPolls)
        => ci_state(status') # Incomplete

NextLive == Next /\ CiSettles

\* the sleep and the fetch of a turn of the loop return
SpecLive == Init /\ [][NextLive]_vars /\ WF_vars(WaitForCi /\ CiSettles)

\* a turn of the polling loop: the sleep, then the fetch
LoopTurn ==
    /\ Len(log') = Len(log) + 2
    /\ log'[Len(log) + 1] = [cmd |-> "sleep ci_poll_interval", ok |-> TRUE]
    /\ log'[Len(log) + 2].cmd = "gh pr view status"

----------------------------------------------------------------------------
(* The force-push after the rebase *)

ForcePushCmd == "git push --force-with-lease"
NewForcePush == Count(ForcePushCmd)' # Count(ForcePushCmd)

\* the commands that touch the base branch
BaseCmds == {"git checkout base", "git merge --ff-only", "git push base"}

\* both SHAs were read by the step just taken
ShasRead ==
    /\ Len(log') = Len(log) + 2
    /\ log'[Len(log')] = [cmd |-> "git rev-parse remote/branch", ok |-> TRUE]

\* C16 as stated: the step after a successful rebase goes on to the force-push if
\* and only if the local tip differs from the tracking tip of the head remote.
C16_ForcePushIffMoved ==
    [][(pc = "post_rebase_check" /\ log' # log) =>
         (pc' = "force_push" <=> ~local_branch_matches_remote(git))]_vars

\* C16, amended: after a successful rebase the two SHAs are read; when a read fails
\* the run ends with that failure, nothing pushed and the base untouched; when both
\* are read the force-push is next if and only if the local tip differs from the
\* tracking tip of the head remote, and the checkout of the base otherwise. The
\* force-push is issued at most once, only there, to the fork remote when one was
\* added and to args.remote otherwise; the sleep of wait_after_rebase follows it
\* exactly when it succeeded, and both come before every command on the base; a
\* run past this step without a force-push has an unchanged tip and no sleep; a
\* failed force-push ends the run with no command on the base.
C16_ConditionalForcePush ==
    /\ [][(pc = "post_rebase_check" /\ log' # log) =>
            /\ Issued("git rebase", TRUE)
            /\ IF ShasRead
               THEN /\ pc' = "force_push" <=> ~local_branch_matches_remote(git)
                    /\ pc' = "checkout_base" <=> local_branch_matches_remote(git)
               ELSE /\ Terminated'
                    /\ result' \in {Err("reading branch sha"),
                                    Err("reading remote branch sha")}
                    /\ ForcePushCmd \notin Cmds' /\ Cmds' \cap BaseCmds = {}]_vars
    /\ [][NewForcePush =>
            /\ pc = "force_push" /\ ~local_branch_matches_remote(git)
            /\ Count(ForcePushCmd) = 0]_vars
    /\ [][(pc = "force_push" /\ pc' # "force_push") => NewForcePush]_vars
    /\ [](pc = "force_push" =>
            head_remote = IF Issued("git remote add", TRUE)
                          THEN pr_data.fork_owner.v ELSE args.remote)
    /\ [](\A i \in 1..Len(log) :
            /\ log[i] = [cmd |-> ForcePushCmd, ok |-> TRUE] =>
                 i < Len(log) /\ log[i + 1].cmd = "sleep wait_after_rebase"
            /\ log[i].cmd = "sleep wait_after_rebase" =>
                 i > 1 /\ log[i - 1] = [cmd |-> ForcePushCmd, ok |-> TRUE]
            /\ log[i].cmd \in {ForcePushCmd, "sleep wait_after_rebase"} =>
                 \A j \in 1..i : log[j].cmd \notin BaseCmds)
    /\ []((pc \in {"checkout_base", "merge", "push_base", "push_retry", "cleanup"}
           /\ ForcePushCmd \notin Cmds) =>
            local_branch_matches_remote(git) /\ "sleep wait_after_rebase" \notin Cmds)
    /\ [](Issued(ForcePushCmd, FALSE) =>
            /\ Terminated /\ result = Err("force-pushing branch")
            /\ Cmds \cap BaseCmds = {})

\* the rebase has moved the tip, the force-push has succeeded, the sleep is over and
\* the checkout of the base is next
C16_Witness ==
    /\ pc = "checkout_base"
    /\ Issued(ForcePushCmd, TRUE)
    /\ "sleep wait_after_rebase" \in Cmds

----------------------------------------------------------------------------
(* The report of the CI gate *)

\* the check runs whose state is not Success, in order, each with its state
RECURSIVE NotSuccessRuns(_)
NotSuccessRuns(runs) ==
    IF runs = <<>> THEN <<>>
    ELSE (IF CheckRun_state(Head(runs)) # Success
          THEN <<[run |-> Head(runs), state |-> CheckRun_state(Head(runs))]>>
          ELSE <<>>) \o NotSuccessRuns(Tail(runs))

\* C17: when a run has failed at the CI gate, what it printed is the check runs of
\* the snapshot whose state is not Success, in order, each with its state, and no
\* run whose state is Success.
C17_CiFailureReport ==
    result = Err("some ci checks are incomplete or unsuccessful") =>
        reported = NotSuccessRuns(check_runs(status))

----------------------------------------------------------------------------
(* The classification of a check run *)

InProgressStatuses == {"QUEUED", "IN_PROGRESS", "WAITING", "REQUESTED", "PENDING"}

\* C18: every (status, conclusion) pair gets one of the three states: Success only
\* for COMPLETED with SUCCESS, SKIPPED or NEUTRAL; Incomplete only for QUEUED,
\* IN_PROGRESS, WAITING, REQUESTED or PENDING with an empty conclusion; Fail for
\* every other pair, among them an absent status, COMPLETED with an empty
\* conclusion and an in-progress status with a conclusion.
C18_Classification ==
    pc = "state_evaluated" =>
        LET r == Rollup[1]
            successPair == /\ r.status = Some("COMPLETED")
                           /\ r.conclusion \in {"SUCCESS", "SKIPPED", "NEUTRAL"}
            incompletePair == /\ r.status \in {Some(s) : s \in InProgressStatuses}
                              /\ r.conclusion = ""
        IN  /\ ciOut \in {Success, Incomplete, Fail}
            /\ ciOut = Success <=> successPair
            /\ ciOut = Incomplete <=> incompletePair
            /\ ciOut = Fail <=> (~successPair /\ ~incompletePair)
            /\ r.status = None => ciOut = Fail
            /\ (r.status = Some("COMPLETED") /\ r.conclusion = "") => ciOut = Fail
            /\ (r.status \in {Some(s) : s \in InProgressStatuses} /\ r.conclusion # "")
                 => ciOut = Fail

\* a run without a status and with the conclusion SUCCESS has been classified Fail
C18_Witness ==
    /\ pc = "state_evaluated"
    /\ Rollup[1] = CheckRun(None, "SUCCESS")
    /\ ciOut = Fail

----------------------------------------------------------------------------
(* The approval gate and the later snapshots *)

\* C19: the approval gate is reached once, from the first fetch of the status and
\* before any sleep of the polling loop, and decides on that snapshot alone: not
\* approved ends the run there, so a run that fails for want of approval has
\* fetched the status once and never slept; after the gate the run goes on by the
\* flags and the CI state of the latest snapshot alone, whatever its review
\* decision: the CI gate lets it pass exactly when ignore_ci is set or the CI state
\* is Success, and the step after it starts the git sequence exactly when the run
\* is no dry run.
C19_ApprovalOnce ==
    /\ [](pc = "poll_status" => polls = 0)
    /\ [][(pc # "approval_gate" /\ pc' = "approval_gate") =>
            pc = "poll_status" /\ polls' = 1]_vars
    /\ [](pc = "approval_gate" =>
            /\ polls = 1 /\ Count("gh pr view status") = 1
            /\ "sleep ci_poll_interval" \notin Cmds)
    /\ [][pc = "approval_gate" =>
            IF status.review_decision = "APPROVED"
            THEN pc' = "wait_for_ci" /\ result' = result
            ELSE Terminated' /\ result' = Err("has not been approved")]_vars
    /\ [](result = Err("has not been approved") =>
            polls = 1 /\ "sleep ci_poll_interval" \notin Cmds)
    /\ [][pc = "ci_gate" =>
            IF args.ignore_ci \/ ci_state(status) = Success
            THEN pc' = "dry_run" /\ result' = result
            ELSE /\ Terminated'
                 /\ result' = Err("some ci checks are incomplete or unsuccessful")]_vars
    /\ [][pc = "dry_run" =>
            IF args.dry_run THEN Terminated' /\ result' = Ok
            ELSE pc' = "fetch_head"]_vars

\* a run has polled again, its latest snapshot is not approved, it has passed the CI
\* gate and the git sequence is next
C19_Witness ==
    /\ pc = "dry_run" /\ ~args.dry_run
    /\ polls >= 2
    /\ status.review_decision = "REVIEW_REQUIRED"

----------------------------------------------------------------------------
(* The fork remote that cannot be added *)

\* C20: when the lookup of the fork's URL or the `git remote add` fails, the run
\* ends at once with that failure and without a binding: no status is fetched, no
\* `git remote remove` is issued then or later, and the remotes stay as they are; a
\* remote add under a name that is already a remote fails, and that remote is
\* still there when the run has ended.
C20_FailedRemoteAdd ==
    /\ [][(pc \in {"fork_url", "remote_add"} /\ ~log'[Len(log')].ok) =>
            /\ pc' = "done"
            /\ result' = IF pc = "fork_url" THEN Err("getting foreign ssh url")
                         ELSE Err("adding remote")
            /\ pr_data'.remote = None
            /\ git' = git]_vars
    /\ [][(pc = "remote_add" /\ pr_data.fork_owner.v \in git.remotes) =>
            /\ log' = Append(log, [cmd |-> "git remote add", ok |-> FALSE])
            /\ pc' = "done"]_vars
    /\ [][pc = "done" => FALSE]_vars
    /\ [](result \in {Err("getting foreign ssh url"), Err("adding remote")} =>
            /\ pc = "done"
            /\ pr_data.remote = None
            /\ "gh pr view status" \notin Cmds
            /\ "git remote remove" \notin Cmds
            /\ Cmds \cap StepCmds = {}
            /\ (Issued("git remote add", FALSE) /\ git.remotes # {args.remote}) =>
                  pr_data.fork_owner.v \in git.remotes)

\* the fork remote's name was taken: the add has failed, the run has ended and the
\* remote of that name is still there
C20_Witness ==
    /\ pc = "done"
    /\ result = Err("adding remote")
    /\ pr_data.fork_owner = Some(ForkLogin)
    /\ ForkLogin \in git.remotes
    /\ "git remote remove" \notin Cmds

====
